---- MODULE Spec2Model ----
(***************************************************************************)
(* vite-plugin-component-debugger: the plugin instance built by            *)
(* componentDebugger() in src/plugin.ts, its transform hook (skip checks,  *)
(* path filtering, the tagging walk, statistics, onTransform) and its      *)
(* buildEnd hook (onComplete, statistics export).                          *)
(*                                                                         *)
(* Strings whose characters matter (paths handed to startsWith, attribute  *)
(* keys and values) are sequences of one-character strings.                *)
(***************************************************************************)
EXTENDS Integers, Sequences, FiniteSets, TLC

\* ------------------------------------------------------------------ bounds
\* JSX nodes (elements and shorthand fragments) in the files of one build
MaxNodes == 5
\* files one plugin instance counts in totalFiles
MaxFiles == 2

\* An optional value is a sequence of at most one element: None is undefined.
None == <<>>
Some(v) == <<v>>

VARIABLES
  config,        \* the options as destructured and validated by componentDebugger()
  stats,         \* CompletionStats, one per plugin instance
  pc,            \* "idle" between hook "walk" inside the tagging walk,
                 \* "open" when a JSXElement was entered and its opening tag is next
  file,          \* the file handed to the running transform call
  walkPath,      \* the walker's path from the root: kinds of the nodes entered and not left
  nodesLeft,     \* JSX nodes of the build the walker has not entered yet
  depthStack,    \* transform's depthStack
  currentDepth,  \* transform's currentDepth
  elementDepth,  \* depth used for gating at the opening tag visited last (0: gating not reached)
  elementCount,  \* transform's elementCount
  elementNames,  \* transform's elementNames
  visit,         \* what happened at the opening tag visited last
  answered,      \* how shouldTag answered for it ("none": not called)
  result,        \* what the last transform call returned
  snapshot,      \* stats as they were when the running transform call began
  written,       \* paths handed to writeFileSync so far
  project,       \* the files the host can hand to transform
  node,          \* the JSXElement entered last (its opening tag is visited next)
  callback,      \* outcome of the last lifecycle callback invocation
  ended,         \* how the last buildEnd call ended
  arg,           \* input of the helper function under check
  ret            \* its result

vars == <<config, stats, pc, file, walkPath, nodesLeft, depthStack, currentDepth,
          elementDepth, elementCount, elementNames, visit, answered, result,
          snapshot, written, project, node, callback, ended, arg, ret>>

walkVars == <<walkPath, nodesLeft, depthStack, currentDepth, elementDepth,
              elementCount, elementNames, visit, answered, node>>


\* ------------------------------------------------------- depth validation
MAX_DEPTH_LIMIT == 50

\* componentDebugger(): "Security: Validate depth values". Three statements in
\* sequence, each reading what the one before left.
ClampMaxDepth(maxD) ==
  IF maxD # 0 /\ (maxD < 0 \/ maxD > MAX_DEPTH_LIMIT) THEN 0 ELSE maxD

ClampMinDepth(minD) ==
  IF minD # 0 /\ minD < 0 THEN 0 ELSE minD

SwapDepths(minD, maxD) ==
  IF minD # 0 /\ maxD # 0 /\ minD > maxD
    THEN [minDepth |-> maxD, maxDepth |-> minD]
    ELSE [minDepth |-> minD, maxDepth |-> maxD]

ValidateDepths(minD, maxD) ==
  SwapDepths(ClampMinDepth(minD), ClampMaxDepth(maxD))

\* ----------------------------------------------------------- path filter
\* A relative path is a sequence of segments; a glob is a sequence of parts,
\* each a literal segment, "*" (one whole segment) or "**" (globstar).
RECURSIVE MatchOne(_, _)
MatchOne(fileParts, pattern) ==
  IF fileParts = <<>> /\ pattern = <<>> THEN TRUE
  ELSE IF fileParts = <<>> \/ pattern = <<>> THEN FALSE
  ELSE IF Head(pattern) = "**"
    THEN IF Tail(pattern) = <<>>
      THEN TRUE
      ELSE \E fr \in 1..Len(fileParts) :
             MatchOne(SubSeq(fileParts, fr, Len(fileParts)), Tail(pattern))
  ELSE /\ (Head(pattern) = "*" \/ Head(pattern) = Head(fileParts))
       /\ MatchOne(Tail(fileParts), Tail(pattern))

minimatch(filePath, pattern) == MatchOne(filePath, pattern)

\* matchesPatterns(filePath, patterns); patterns is an optional list
matchesPatterns(filePath, patterns) ==
  IF patterns = None \/ patterns[1] = <<>> THEN FALSE
  ELSE \E i \in 1..Len(patterns[1]) : minimatch(filePath, patterns[1][i])

\* transform, "V2: Path filtering": TRUE when either filter returns null
PathFilteredOut(relativePath, includePaths, excludePaths) ==
  \/ (includePaths # None /\ ~matchesPatterns(relativePath, includePaths))
  \/ (excludePaths # None /\ matchesPatterns(relativePath, excludePaths))

\* ------------------------------------------------------------ exclusion
\* An element name is the sequence of its dot-separated segments:
\* <<"div">> is div, <<"React", "Fragment">> is React.Fragment.
DefaultExcludeElements == {<<"Fragment">>, <<"React", "Fragment">>}

\* DEFAULT_THREE_FIBER_ELEMENTS, of which the files here use mesh
DEFAULT_THREE_FIBER_ELEMENTS == {<<"mesh">>, <<"group">>, <<"scene">>}

\* transform, "Get element name": the written name of an opening element, None
\* for a name that is neither an identifier nor a member expression.
\* A member expression whose object is itself a member expression has no
\* object.name, and the template string renders that as "undefined".
ElementName(opening) ==
  IF opening.type = "JSXIdentifier" THEN Some(<<opening.segs[1]>>)
  ELSE IF opening.type = "JSXMemberExpression"
    THEN IF Len(opening.segs) = 2
      THEN Some(opening.segs)
      ELSE Some(<<"undefined", opening.segs[Len(opening.segs)]>>)
  ELSE None

\* transform, "First pass: collect imports": the walk over every
\* ImportDeclaration of the file. A declaration is kept here as its source, the
\* type of its one specifier, the specifier's local name and its place in the
\* file ("top": before the JSX, "bottom": after it).
ThreeSources == {"@react-three/drei", "@react-three/fiber", "three"}

ImportDecl(source, type, local, place) ==
  [source |-> source, type |-> type, local |-> local, place |-> place]

\* A scan that has seen only the declarations above the JSX
RECURSIVE CollectImportsAbove(_, _)
CollectImportsAbove(imports, type) ==
  IF imports = <<>> THEN {}
  ELSE (IF Head(imports).source \in ThreeSources /\ Head(imports).type = type
           /\ Head(imports).place = "top"
          THEN {Head(imports).local} ELSE {})
       \cup CollectImportsAbove(Tail(imports), type)

RECURSIVE CollectImports(_, _)
CollectImports(imports, type) ==
  IF imports = <<>> THEN {}
  ELSE (IF Head(imports).source \in ThreeSources /\ Head(imports).type = type
          THEN {Head(imports).local} ELSE {})
       \cup CollectImports(Tail(imports), type)

importedFromDrei(f) == CollectImports(f.imports, "ImportSpecifier")
namespaceImports(f) == CollectImports(f.imports, "ImportNamespaceSpecifier")

\* shouldExcludeElement(elementName, excludeElements, customExcludes,
\*                      importedFromDrei, namespaceImports)
shouldExcludeElement(elementName, excludeElements, customExcludes, imported, namespaces) ==
  \/ elementName \in excludeElements
  \/ elementName \in customExcludes
  \/ (Len(elementName) = 1 /\ elementName[1] \in imported)
  \/ (Len(elementName) > 1 /\ elementName[1] \in namespaces)

\* DepthRejected without the root-only check
DepthRejectedNoRootCheck(d, tagOnlyRoots, minD, maxD) ==
  \/ (minD > 0 /\ d < minD)
  \/ (maxD > 0 /\ d > maxD)

\* DepthRejected with the minDepth comparison off by one
DepthRejectedAtMinDepth(d, tagOnlyRoots, minD, maxD) ==
  \/ (tagOnlyRoots /\ d > 1)
  \/ (minD > 0 /\ d <= minD)
  \/ (maxD > 0 /\ d > maxD)

\* transform, "V2: Depth filtering": TRUE when one of the three checks returns
\* depth gating that lets every element through
DepthRejectedNever(d, tagOnlyRoots, minD, maxD) == FALSE

DepthRejected(d, tagOnlyRoots, minD, maxD) ==
  \/ (tagOnlyRoots /\ d > 1)
  \/ (minD > 0 /\ d < minD)
  \/ (maxD > 0 /\ d > maxD)


\* ------------------------------------------------------------ statistics
\* The element names a file of the model can hold after ElementName
TagNames ==
  {<<"div">>, <<"span">>, <<"Fragment">>, <<"mesh">>, <<"Text">>,
   <<"drei", "Text">>, <<"undefined", "Text">>}

\* const stats: CompletionStats = {...}; a byElementType count of 0 is an absent key
NewStats ==
  [totalFiles |-> 0, processedFiles |-> 0, totalElements |-> 0, errors |-> 0,
   byElementType |-> [n \in TagNames |-> 0]]

\* transform's catch block: stats.errors++, return null
Caught(st) == [st EXCEPT !.errors = @ + 1]

\* stats.byElementType[elementName] = (stats.byElementType[elementName] || 0) + 1
CountElementType(st, elementName) ==
  [st EXCEPT !.byElementType[elementName] = @ + 1]

\* stats.processedFiles++; stats.totalElements += elementCount
Commit(st, count) ==
  [st EXCEPT !.processedFiles = @ + 1, !.totalElements = @ + count]

\* ------------------------------------------------------------- transform
\* The opening elements of the files: <div>, <span>, <Fragment>, <mesh> and
\* <svg:rect>
Div == [type |-> "JSXIdentifier", segs |-> <<"div">>]
Span == [type |-> "JSXIdentifier", segs |-> <<"span">>]
FragmentElement == [type |-> "JSXIdentifier", segs |-> <<"Fragment">>]
Mesh == [type |-> "JSXIdentifier", segs |-> <<"mesh">>]
SvgRect == [type |-> "JSXNamespacedName", segs |-> <<"svg", "rect">>]
\* <Text>, <drei.Text> and <drei.ui.Text>
Text == [type |-> "JSXIdentifier", segs |-> <<"Text">>]
DreiText == [type |-> "JSXMemberExpression", segs |-> <<"drei", "Text">>]
DreiUiText == [type |-> "JSXMemberExpression", segs |-> <<"drei", "ui", "Text">>]

NoNode == [type |-> "none", segs |-> <<>>]

\* What onTransform is called with, and how the call ended
\* the names with every repetition of a name after its first entry left out
RECURSIVE Distinct(_)
Distinct(names) ==
  IF names = <<>> THEN <<>>
  ELSE LET front == Distinct(SubSeq(names, 1, Len(names) - 1))
           last == names[Len(names)]
       IN IF \E i \in 1..Len(front) : front[i] = last THEN front
          ELSE Append(front, last)

\* the onTransform argument with the names made distinct
OnTransformCallDistinct(outcome, count, names) ==
  [outcome |-> outcome, elementsTagged |-> count, elementNames |-> Distinct(names)]

\* onTransform({ file, elementsTagged: elementCount, elementNames })
OnTransformCall(outcome, count, names) ==
  [outcome |-> outcome, elementsTagged |-> count, elementNames |-> names]

NoCall == OnTransformCall("none", 0, <<>>)

\* The locals of a transform call: as a call begins, and no longer there when
\* it has returned
ResetWalk ==
  /\ walkPath' = <<>>
  /\ depthStack' = <<>>
  /\ currentDepth' = 0
  /\ elementDepth' = 0
  /\ elementCount' = 0
  /\ elementNames' = <<>>
  /\ visit' = "none"
  /\ answered' = "none"
  /\ node' = NoNode

\* transform(code, id) up to the start of the second pass: the skip checks,
\* totalFiles, path filtering, the parse and the import scan.
TransformBegin ==
  /\ pc = "idle"
  /\ stats.totalFiles < MaxFiles
  /\ \E f \in project :
       /\ file' = f
       /\ snapshot' = stats
       /\ callback' = NoCall
       /\ IF ~config.enabled \/ ~f.extension \/ f.nodeModules
            THEN /\ result' = "null"
                 /\ pc' = "idle"
                 /\ UNCHANGED stats
          ELSE IF PathFilteredOut(f.path, config.includePaths, config.excludePaths)
            THEN /\ stats' = [stats EXCEPT !.totalFiles = @ + 1]
                 /\ result' = "null"
                 /\ pc' = "idle"
          ELSE IF ~f.parses
            THEN /\ stats' = Caught([stats EXCEPT !.totalFiles = @ + 1])
                 /\ result' = "null"
                 /\ pc' = "idle"
          ELSE /\ stats' = [stats EXCEPT !.totalFiles = @ + 1]
               /\ result' = "running"
               /\ pc' = "walk"
  /\ ResetWalk
  /\ UNCHANGED <<config, nodesLeft, written, project, ended, arg, ret>>

\* The catch block of transform, reached from inside the walk or after it
Catch ==
  /\ stats' = Caught(stats)
  /\ result' = "null"
  /\ pc' = "idle"

\* Second pass, enter(node) for a JSXElement: the depth bookkeeping. The
\* opening element is the first child the walker visits next.
EnterJSXElement ==
  /\ pc = "walk"
  /\ nodesLeft > 0
  /\ \E el \in file.elements : node' = el
  /\ walkPath' = Append(walkPath, "JSXElement")
  /\ nodesLeft' = nodesLeft - 1
  /\ currentDepth' = currentDepth + 1
  /\ depthStack' = Append(depthStack, currentDepth + 1)
  /\ pc' = "open"
  /\ UNCHANGED <<config, stats, file, elementDepth, elementCount, elementNames,
                 visit, answered, result, snapshot, written, project,
                 callback, ended, arg, ret>>

\* enter(node) that counts a shorthand fragment as a level of depth
EnterJSXFragmentAddsDepth ==
  /\ pc = "walk"
  /\ nodesLeft > 0
  /\ walkPath' = Append(walkPath, "JSXFragment")
  /\ nodesLeft' = nodesLeft - 1
  /\ currentDepth' = currentDepth + 1
  /\ depthStack' = Append(depthStack, currentDepth + 1)
  /\ UNCHANGED <<config, stats, pc, file, elementDepth, elementCount, elementNames,
                 visit, answered, result, snapshot, written, project, node,
                 callback, ended, arg, ret>>

\* Second pass, enter(node) for a shorthand fragment <>...</>: a JSXFragment
\* node, for which the handler does nothing.
EnterJSXFragment ==
  /\ pc = "walk"
  /\ nodesLeft > 0
  /\ walkPath' = Append(walkPath, "JSXFragment")
  /\ nodesLeft' = nodesLeft - 1
  /\ UNCHANGED <<config, stats, pc, file, depthStack, currentDepth, elementDepth,
                 elementCount, elementNames, visit, answered, result, snapshot, written, project, node, callback, ended, arg, ret>>

\* Second pass, leave(node) for a JSXFragment: nothing
LeaveJSXFragment ==
  /\ pc = "walk"
  /\ walkPath # <<>>
  /\ walkPath[Len(walkPath)] = "JSXFragment"
  /\ walkPath' = SubSeq(walkPath, 1, Len(walkPath) - 1)
  /\ UNCHANGED <<config, stats, pc, file, nodesLeft, depthStack, currentDepth,
                 elementDepth, elementCount, elementNames, visit, answered, result,
                 snapshot, written, project, node, callback, ended, arg, ret>>

\* leave(node) that forgets to pop the marker stack
LeaveJSXElementKeepsStack ==
  /\ pc = "walk"
  /\ walkPath # <<>>
  /\ walkPath[Len(walkPath)] = "JSXElement"
  /\ walkPath' = SubSeq(walkPath, 1, Len(walkPath) - 1)
  /\ currentDepth' = currentDepth - 1
  /\ UNCHANGED <<config, stats, pc, file, nodesLeft, depthStack, elementDepth,
                 elementCount, elementNames, visit, answered, result, snapshot, written,
                 project, node, callback, ended, arg, ret>>

\* Second pass, leave(node) for a JSXElement: depthStack.pop(); currentDepth--
LeaveJSXElement ==
  /\ pc = "walk"
  /\ walkPath # <<>>
  /\ walkPath[Len(walkPath)] = "JSXElement"
  /\ walkPath' = SubSeq(walkPath, 1, Len(walkPath) - 1)
  /\ depthStack' = SubSeq(depthStack, 1, Len(depthStack) - 1)
  /\ currentDepth' = currentDepth - 1
  /\ UNCHANGED <<config, stats, pc, file, nodesLeft, elementDepth, elementCount,
                 elementNames, visit, answered, result, snapshot, written, project, node, callback, ended, arg, ret>>

\* shouldTag that skips the element when it throws as well
SkipsElementOnThrow(answer) == answer \in {"false", "throws"}

\* transform, "V2: Call shouldTag callback": the element is skipped when the
\* callback returns a falsy value; a throw is caught and logged and the element
\* is processed
SkipsElement(answer) == answer = "false"

\* Second pass, enter(node) for the JSXOpeningElement of the element entered
\* last: name, static exclusion, depth gating, shouldTag, generateAttributes,
\* the splice and the per-element statistics. A transformer that throws ends
\* the walk in transform's catch block.
EnterJSXOpeningElement ==
  /\ pc = "open"
  /\ LET name == ElementName(node)
         depth == Len(depthStack)
     IN
     IF name = None
       THEN /\ visit' = "unnamed"
            /\ answered' = "none"
            /\ elementDepth' = 0
            /\ pc' = "walk"
            /\ UNCHANGED <<stats, elementCount, elementNames, result>>
     ELSE IF shouldExcludeElement(name[1], config.excludeElements,
                                  config.customExcludes,
                                  importedFromDrei(file), namespaceImports(file))
       THEN /\ visit' = "excluded"
            /\ answered' = "none"
            /\ elementDepth' = 0
            /\ pc' = "walk"
            /\ UNCHANGED <<stats, elementCount, elementNames, result>>
     ELSE IF DepthRejected(depth, config.tagOnlyRoots, config.minDepth,
                           config.maxDepth)
       THEN /\ visit' = "depth"
            /\ answered' = "none"
            /\ elementDepth' = depth
            /\ pc' = "walk"
            /\ UNCHANGED <<stats, elementCount, elementNames, result>>
     ELSE /\ elementDepth' = depth
          /\ \E answer \in (IF config.shouldTag
                              THEN {"true", "false", "throws"} ELSE {"absent"}) :
               /\ answered' = (IF answer = "absent" THEN "none" ELSE answer)
               /\ IF SkipsElement(answer)
                    THEN /\ visit' = "rejected"
                         /\ pc' = "walk"
                         /\ UNCHANGED <<stats, elementCount, elementNames, result>>
                  ELSE \E transformer \in (IF config.transformers
                                             THEN {"returns", "throws"}
                                             ELSE {"absent"}) :
                    IF transformer = "throws"
                      THEN /\ visit' = "threw"
                           /\ Catch
                           /\ elementCount' = 0
                           /\ elementNames' = <<>>
                      ELSE /\ visit' = "tagged"
                           /\ elementCount' = elementCount + 1
                           /\ elementNames' = Append(elementNames, name[1])
                           /\ stats' = CountElementType(stats, name[1])
                           /\ pc' = "walk"
                           /\ UNCHANGED result
  /\ node' = NoNode
  /\ IF visit' = "threw"
       THEN /\ walkPath' = <<>>
            /\ depthStack' = <<>>
            /\ currentDepth' = 0
       ELSE UNCHANGED <<walkPath, depthStack, currentDepth>>
  /\ UNCHANGED <<config, file, nodesLeft, snapshot, written, project, callback, ended, arg, ret>>

\* transform after the walk: the commit, onTransform and the result. An
\* onTransform that throws is caught by transform's catch block.
TransformEnd ==
  /\ pc = "walk"
  /\ walkPath = <<>>
  /\ \E outcome \in (IF config.onTransform /\ elementCount > 0
                       THEN {"returns", "throws"} ELSE {"none"}) :
       /\ callback' = IF outcome = "none" THEN NoCall
                       ELSE OnTransformCall(outcome, elementCount, elementNames)
       /\ IF outcome = "throws"
            THEN /\ stats' = Caught(Commit(stats, elementCount))
                 /\ result' = "null"
            ELSE /\ stats' = Commit(stats, elementCount)
                 /\ result' = IF elementCount > 0 THEN "code" ELSE "null"
  /\ pc' = "idle"
  /\ elementDepth' = 0
  /\ elementCount' = 0
  /\ elementNames' = <<>>
  /\ visit' = "done"
  /\ answered' = "none"
  /\ UNCHANGED <<config, file, walkPath, nodesLeft, depthStack, currentDepth,
                 node, snapshot, written, project, ended, arg, ret>>


\* ---------------------------------------------------------------- buildEnd
\* A path string is a sequence of characters; a path is also kept as its list
\* of segments, each a sequence of characters.
DotDot == <<".", ".">>

\* process.cwd(): the project root /p, as segments
projectRoot == << <<"p">> >>

RECURSIVE PathString(_)
PathString(segs) ==
  IF segs = <<>> THEN <<>> ELSE <<"/">> \o Head(segs) \o PathString(Tail(segs))

\* String.prototype.startsWith
StartsWith(str, prefix) ==
  /\ Len(str) >= Len(prefix)
  /\ SubSeq(str, 1, Len(prefix)) = prefix

\* path.resolve / path.normalize on segments: ".." removes the segment before
\* it (none at the root), "." is dropped.
RECURSIVE NormalizeSegments(_, _)
NormalizeSegments(done, rest) ==
  IF rest = <<>> THEN done
  ELSE IF Head(rest) = DotDot
    THEN NormalizeSegments(
           IF done = <<>> THEN <<>> ELSE SubSeq(done, 1, Len(done) - 1),
           Tail(rest))
  ELSE IF Head(rest) = <<".">> THEN NormalizeSegments(done, Tail(rest))
  ELSE NormalizeSegments(Append(done, Head(rest)), Tail(rest))

\* path.resolve(projectRoot, exportStats)
PathResolve(root, p) ==
  IF p.absolute THEN NormalizeSegments(<<>>, p.segs)
  ELSE NormalizeSegments(<<>>, root \o p.segs)

\* buildEnd, "Security: Prevent path traversal attacks": the path that may be
\* written, None when the check rejects it.
ExportTarget(root, exportStats) ==
  LET statsPath == PathResolve(root, exportStats)
      normalizedStatsPath == PathString(statsPath)
      normalizedRoot == PathString(root)
  IN IF ~StartsWith(normalizedStatsPath, normalizedRoot) THEN None
     ELSE Some(statsPath)

\* buildEnd(): the summary, onComplete and the statistics export. An
\* onComplete that throws leaves buildEnd by the exception; a writeFileSync
\* that throws is caught.
\* buildEnd that starts the statistics afresh
BuildEndResetsStats ==
  /\ pc = "idle"
  /\ stats' = NewStats
  /\ ended' = "returned"
  /\ UNCHANGED <<config, pc, file, walkVars, result, snapshot, written, project, callback, arg, ret>>

BuildEnd ==
  /\ pc = "idle"
  /\ IF config.enabled /\ (stats.totalFiles > 0 \/ stats.totalElements > 0)
       THEN \E outcome \in (IF config.onComplete
                              THEN {"returns", "throws"} ELSE {"none"}) :
              /\ IF outcome = "throws"
                   THEN /\ ended' = "threw"
                        /\ UNCHANGED written
                 ELSE /\ ended' = "returned"
                      /\ IF config.exportStats = None
                           THEN UNCHANGED written
                         ELSE LET target == ExportTarget(projectRoot,
                                                         config.exportStats[1])
                              IN IF target = None
                                   THEN UNCHANGED written
                                   ELSE \E writes \in BOOLEAN :
                                          written' = IF writes
                                            THEN written \cup {target[1]}
                                            ELSE written
       ELSE /\ ended' = "returned"
            /\ UNCHANGED written
  /\ UNCHANGED <<config, stats, pc, file, walkVars, result, snapshot, project, callback, arg, ret>>

\* --------------------------------------------------- componentDebugger()
\* The defaults of the destructuring in componentDebugger()
DefaultOptions ==
  [enabled |-> TRUE,
   excludeElements |-> DefaultExcludeElements,
   customExcludes |-> DEFAULT_THREE_FIBER_ELEMENTS,
   includePaths |-> None, excludePaths |-> None,
   transformers |-> FALSE, shouldTag |-> FALSE,
   maxDepth |-> 0, minDepth |-> 0, tagOnlyRoots |-> FALSE,
   onTransform |-> FALSE, onComplete |-> FALSE,
   exportStats |-> None]

\* componentDebugger(options): the destructured options with the depth
\* values validated
componentDebugger(options) ==
  LET depths == ValidateDepths(options.minDepth, options.maxDepth)
  IN [options EXCEPT !.minDepth = depths.minDepth, !.maxDepth = depths.maxDepth]

\* The files a host hands to transform
File(extension, nodeModules, path, parses, elements) ==
  [extension |-> extension, nodeModules |-> nodeModules, path |-> path,
   parses |-> parses, elements |-> elements, imports |-> <<>>]

NoFile == File(FALSE, FALSE, <<>>, FALSE, {})

\* The state of a fresh plugin instance with the given effective options
Fresh(cfg, files) ==
  /\ config = cfg
  /\ project = files
  /\ stats = NewStats
  /\ snapshot = NewStats
  /\ pc = "idle"
  /\ file = NoFile
  /\ walkPath = <<>>
  /\ nodesLeft = MaxNodes
  /\ depthStack = <<>>
  /\ currentDepth = 0
  /\ elementDepth = 0
  /\ elementCount = 0
  /\ elementNames = <<>>
  /\ visit = "none"
  /\ answered = "none"
  /\ node = NoNode
  /\ result = "none"
  /\ written = {}
  /\ callback = NoCall
  /\ ended = "none"
  /\ ret = <<>>

\* The hooks of the plugin as the host calls them, the walk step by step
Next ==
  \/ TransformBegin
  \/ EnterJSXElement
  \/ EnterJSXOpeningElement
  \/ EnterJSXFragment
  \/ LeaveJSXFragment
  \/ LeaveJSXElement
  \/ TransformEnd
  \/ BuildEnd

WalkProject ==
  { File(TRUE, FALSE, <<"src", "App">>, TRUE, {Div, Span, FragmentElement}),
    File(FALSE, FALSE, <<"src", "App">>, TRUE, {}),
    File(TRUE, TRUE, <<"node_modules", "App">>, TRUE, {}),
    File(TRUE, FALSE, <<"src", "Bad">>, FALSE, {}) }

DepthProject ==
  { File(TRUE, FALSE, <<"src", "App">>, TRUE, {Div, FragmentElement, SvgRect}) }

\* Plugin instances without and with the user callbacks; a callback that is
\* given may behave as if it were absent
Init ==
  \E given \in BOOLEAN :
    Fresh(componentDebugger([DefaultOptions EXCEPT
            !.shouldTag = given, !.transformers = given,
            !.onTransform = given]),
          WalkProject)
    /\ arg = <<>>

Spec == Init /\ [][Next]_vars

\* Depth options of the tagging walk
WalkMinDepths == {0, 1, 2}
WalkMaxDepths == {0, 1, 3}

\* Plugin instances that differ in the depth options
InitDepth ==
  \E roots \in BOOLEAN, minD \in WalkMinDepths, maxD \in WalkMaxDepths :
    Fresh(componentDebugger([DefaultOptions EXCEPT
            !.tagOnlyRoots = roots, !.minDepth = minD, !.maxDepth = maxD]),
          DepthProject)
    /\ arg = <<>>

SpecDepth == InitDepth /\ [][Next]_vars

\* Files that import from the three.js libraries, at the top or at the bottom
ImportLists ==
  { <<ImportDecl("@react-three/drei", "ImportSpecifier", "Text", "bottom")>>,
    <<ImportDecl("react", "ImportSpecifier", "Text", "top"),
      ImportDecl("@react-three/fiber", "ImportNamespaceSpecifier", "drei", "bottom")>>,
    <<ImportDecl("@react-three/drei", "ImportDefaultSpecifier", "drei", "top")>> }

ImportFile(imports) ==
  [File(TRUE, FALSE, <<"src", "Scene">>, TRUE, {Text, DreiText, DreiUiText})
     EXCEPT !.imports = imports]

\* Plugin instances each given one file with imports
InitImports ==
  \E imports \in ImportLists :
    Fresh(componentDebugger(DefaultOptions), {ImportFile(imports)})
    /\ arg = <<>>

SpecImports == InitImports /\ [][Next]_vars

\* A plugin instance whose only callback is shouldTag
ShouldTagProject == { File(TRUE, FALSE, <<"src", "App">>, TRUE, {Div, Span}) }

\* One file whose elements are excluded, too deep, or reach the callbacks
CallbackProject == { File(TRUE, FALSE, <<"src", "App">>, TRUE, {Div, Mesh}) }

\* A plugin instance with shouldTag and transformers given and a depth limit
InitCallbacks ==
  /\ Fresh(componentDebugger([DefaultOptions EXCEPT
             !.shouldTag = TRUE, !.transformers = TRUE, !.maxDepth = 2]),
           CallbackProject)
  /\ arg = <<>>

SpecCallbacks == InitCallbacks /\ [][Next]_vars

\* A plugin instance with onTransform given
InitOnTransform ==
  /\ Fresh(componentDebugger([DefaultOptions EXCEPT !.onTransform = TRUE]),
           ShouldTagProject)
  /\ arg = <<>>

SpecOnTransform == InitOnTransform /\ [][Next]_vars

InitShouldTag ==
  /\ Fresh(componentDebugger([DefaultOptions EXCEPT !.shouldTag = TRUE]),
           ShouldTagProject)
  /\ arg = <<>>

SpecShouldTag == InitShouldTag /\ [][Next]_vars


\* ------------------------------------------------ path-filter instances
SrcAll == <<"src", "**">>
LibStar == <<"lib", "*">>
AnyTest == <<"**", "test">>

IncludeLists == {None, Some(<<>>), Some(<<SrcAll>>), Some(<<LibStar, SrcAll>>)}
ExcludeLists == {None, Some(<<>>), Some(<<AnyTest>>), Some(<<AnyTest, LibStar>>)}

FilterProject ==
  { File(TRUE, FALSE, <<"src", "App">>, TRUE, {Div}),
    File(TRUE, FALSE, <<"lib", "App">>, TRUE, {Div}),
    File(TRUE, FALSE, <<"src", "ui", "test">>, TRUE, {Div}),
    File(TRUE, FALSE, <<"App">>, TRUE, {Div}) }

\* A pattern of twelve asterisks: **/**/**/**/**/**/App
ManyWildcards == <<"**", "**", "**", "**", "**", "**", "App">>

GlobIncludeLists == {None, Some(<<ManyWildcards>>), Some(<<ManyWildcards, LibStar>>)}
GlobExcludeLists == {None, Some(<<ManyWildcards>>), Some(<<AnyTest, ManyWildcards>>)}

GlobProject ==
  { File(TRUE, FALSE, <<"src", "App">>, TRUE, {Div}),
    File(TRUE, FALSE, <<"lib", "App">>, TRUE, {Div}),
    File(TRUE, FALSE, <<"src", "ui", "test">>, TRUE, {Div}) }

\* Plugin instances whose path filters hold a pattern with many wildcards
InitGlob ==
  \E inc \in GlobIncludeLists, exc \in GlobExcludeLists :
    Fresh(componentDebugger([DefaultOptions EXCEPT
            !.includePaths = inc, !.excludePaths = exc]),
          GlobProject)
    /\ arg = <<>>

SpecGlob == InitGlob /\ [][Next]_vars

\* Plugin instances that differ in includePaths and excludePaths
InitFilter ==
  \E inc \in IncludeLists, exc \in ExcludeLists :
    Fresh(componentDebugger([DefaultOptions EXCEPT
            !.includePaths = inc, !.excludePaths = exc]),
          FilterProject)
    /\ arg = <<>>

SpecFilter == InitFilter /\ [][Next]_vars

\* ------------------------------------------------ stats-export instances
\* segments of an exportStats path
MaxSegments == 2

\* "..", the root's own name p, the sibling name po and a file name s
SegmentNames == {DotDot, <<"p">>, <<"p", "o">>, <<"s">>}

RECURSIVE SegmentLists(_)
SegmentLists(n) ==
  IF n = 0 THEN {<<>>}
  ELSE LET shorter == SegmentLists(n - 1)
       IN shorter \cup {Append(l, x) : l \in shorter, x \in SegmentNames}

ExportPaths ==
  {[absolute |-> a, segs |-> l] :
     a \in BOOLEAN, l \in SegmentLists(MaxSegments) \ {<<>>}}

ExportProject == { File(TRUE, FALSE, <<"src", "App">>, TRUE, {Div}) }

\* Plugin instances that differ in exportStats and in being given onComplete
InitExport ==
  \E p \in ExportPaths, oc \in BOOLEAN :
    Fresh(componentDebugger([DefaultOptions EXCEPT
            !.exportStats = Some(p), !.onComplete = oc]),
          ExportProject)
    /\ arg = <<>>

SpecExport == InitExport /\ [][Next]_vars

\* ------------------------------------------------ depth-option instances
\* how far the depth options range below 0 and above MAX_DEPTH_LIMIT
DepthSlack == 2

DepthInputs == (0 - DepthSlack)..(MAX_DEPTH_LIMIT + DepthSlack)

InitConfig ==
  /\ Fresh(DefaultOptions, {})
  /\ \E minD \in DepthInputs, maxD \in DepthInputs :
       arg = [minDepth |-> minD, maxDepth |-> maxD]

\* componentDebugger({minDepth, maxDepth}): the effective configuration
Construct ==
  /\ ret = <<>>
  /\ ret' = Some(componentDebugger([DefaultOptions EXCEPT
                   !.minDepth = arg.minDepth, !.maxDepth = arg.maxDepth]))
  /\ UNCHANGED <<config, stats, pc, file, walkVars, result, snapshot, written,
                 project, callback, ended, arg>>

NextConfig == Construct

SpecConfig == InitConfig /\ [][NextConfig]_vars


\* ====================================================== generateAttributes
\* A string is a sequence of one-character strings. Ascii[i] is the character
\* with code 31 + i, for the printable codes 32..126 (code 96, the grave
\* accent, is spelled out: no string of the model contains it).
Ascii ==
  <<
     " ", "!", "\"", "#", "$", "%", "&", "'", "(", ")", "*", "+",
     ",", "-", ".", "/", "0", "1", "2", "3", "4", "5", "6", "7",
     "8", "9", ":", ";", "<", "=", ">", "?", "@", "A", "B", "C",
     "D", "E", "F", "G", "H", "I", "J", "K", "L", "M", "N", "O",
     "P", "Q", "R", "S", "T", "U", "V", "W", "X", "Y", "Z", "[",
     "\\", "]", "^", "_", "grave", "a", "b", "c", "d", "e", "f", "g",
     "h", "i", "j", "k", "l", "m", "n", "o", "p", "q", "r", "s",
     "t", "u", "v", "w", "x", "y", "z", "{", "|", "}", "~"
  >>

CharCode(c) == 31 + (CHOOSE i \in 1..Len(Ascii) : Ascii[i] = c)
CharOf(code) == Ascii[code - 31]

\* The concatenation of a list of strings (halving keeps the recursion shallow)
RECURSIVE Flatten(_)
Flatten(strs) ==
  IF Len(strs) = 0 THEN <<>>
  ELSE IF Len(strs) = 1 THEN strs[1]
  ELSE LET mid == Len(strs) \div 2
       IN Flatten(SubSeq(strs, 1, mid)) \o Flatten(SubSeq(strs, mid + 1, Len(strs)))

\* Array.prototype.join
Join(strs, sep) ==
  Flatten([i \in 1..Len(strs) |-> IF i = 1 THEN strs[i] ELSE sep \o strs[i]])

\* String(n) for a non-negative integer
RECURSIVE Decimal(_)
Decimal(n) ==
  IF n < 10 THEN <<CharOf(48 + n)>>
  ELSE Decimal(n \div 10) \o <<CharOf(48 + (n % 10))>>

\* JSON.stringify of a string: quoted, with " and \ escaped
JsonEscapeChar(c) ==
  IF c = "\"" THEN <<"\\", "\"">>
  ELSE IF c = "\\" THEN <<"\\", "\\">>
  ELSE <<c>>

JsonString(str) ==
  <<"\"">> \o Flatten([i \in 1..Len(str) |-> JsonEscapeChar(str[i])]) \o <<"\"">>

\* JSON.stringify of a value: a string, or the boolean true
JsonValue(v) ==
  IF v.kind = "string" THEN JsonString(v.str) ELSE <<"t", "r", "u", "e">>

\* JSON.stringify of an object given as its list of [key, value] entries
JsonObject(entries) ==
  <<"{">>
    \o Join([i \in 1..Len(entries) |->
               JsonString(entries[i].key) \o <<":">> \o JsonValue(entries[i].value)],
            <<",">>)
    \o <<"}">>

\* encodeURIComponent: letters, digits and - _ . ! ~ * ' ( ) stay, every other
\* character becomes %XX
IsUnreserved(c) ==
  LET code == CharCode(c)
  IN \/ (code >= 48 /\ code <= 57)
     \/ (code >= 65 /\ code <= 90)
     \/ (code >= 97 /\ code <= 122)
     \/ c \in {"-", "_", ".", "!", "~", "*", "'", "(", ")"}

HexDigit(n) == IF n < 10 THEN CharOf(48 + n) ELSE CharOf(55 + n)

PercentEncode(c) ==
  IF IsUnreserved(c) THEN <<c>>
  ELSE <<"%", HexDigit(CharCode(c) \div 16), HexDigit(CharCode(c) % 16)>>

encodeURIComponent(str) ==
  Flatten([i \in 1..Len(str) |-> PercentEncode(str[i])])

\* encodeBase64: Buffer.from(str).toString('base64')
Base64Char(n) ==
  IF n < 26 THEN CharOf(65 + n)
  ELSE IF n < 52 THEN CharOf(97 + (n - 26))
  ELSE IF n < 62 THEN CharOf(48 + (n - 52))
  ELSE IF n = 62 THEN "+"
  ELSE "/"

\* one group of up to three bytes as four characters, padded with =
Base64Group(codes) ==
  IF Len(codes) = 1
    THEN <<Base64Char(codes[1] \div 4), Base64Char((codes[1] % 4) * 16), "=", "=">>
  ELSE IF Len(codes) = 2
    THEN <<Base64Char(codes[1] \div 4),
           Base64Char((codes[1] % 4) * 16 + codes[2] \div 16),
           Base64Char((codes[2] % 16) * 4), "=">>
  ELSE <<Base64Char(codes[1] \div 4),
         Base64Char((codes[1] % 4) * 16 + codes[2] \div 16),
         Base64Char((codes[2] % 16) * 4 + codes[3] \div 64),
         Base64Char(codes[3] % 64)>>

Min(a, b) == IF a < b THEN a ELSE b

Base64Codes(codes) ==
  Flatten([g \in 1..((Len(codes) + 2) \div 3) |->
             Base64Group(SubSeq(codes, 3 * g - 2, Min(3 * g, Len(codes))))])

encodeBase64(str) == Base64Codes([i \in 1..Len(str) |-> CharCode(str[i])])

\* str.replace(/"/g, '&quot;')
ReplaceQuotes(str) ==
  Flatten([i \in 1..Len(str) |->
             IF str[i] = "\"" THEN <<"&", "q", "u", "o", "t", ";">> ELSE <<str[i]>>])

\* Object property assignment obj[key] = value on a plain object kept as its
\* list of own [key, value] entries in insertion order. Assigning a string to
\* __proto__ goes to the inherited setter, which ignores it: no own property.
KeyProto == <<"_", "_", "p", "r", "o", "t", "o", "_", "_">>
KeyConstructor == <<"c", "o", "n", "s", "t", "r", "u", "c", "t", "o", "r">>
KeyPrototype == <<"p", "r", "o", "t", "o", "t", "y", "p", "e">>

RECURSIVE HasKey(_, _)
HasKey(obj, key) ==
  IF obj = <<>> THEN FALSE
  ELSE Head(obj).key = key \/ HasKey(Tail(obj), key)

SetProperty(obj, key, value) ==
  IF key = KeyProto THEN obj
  ELSE IF HasKey(obj, key)
    THEN [i \in 1..Len(obj) |->
            IF obj[i].key = key THEN [key |-> key, value |-> value] ELSE obj[i]]
  ELSE Append(obj, [key |-> key, value |-> value])

StringValue(str) == [kind |-> "string", str |-> str]
TrueValue == [kind |-> "true", str |-> <<>>]

\* Array.prototype.includes
Includes(list, x) == \E i \in 1..Len(list) : list[i] = x

\* String.prototype.slice(n)
Slice(str, n) == IF n >= Len(str) THEN <<>> ELSE SubSeq(str, n + 1, Len(str))

\* shouldInclude that consults the denylist before the allowlist
shouldIncludeDenylistFirst(attrName, includeAttributes, excludeAttributes) ==
  IF excludeAttributes # None /\ Len(excludeAttributes[1]) > 0
    THEN ~Includes(excludeAttributes[1], attrName)
  ELSE IF includeAttributes # None THEN Includes(includeAttributes[1], attrName)
  ELSE TRUE

\* shouldInclude, plugin.ts generateAttributes
shouldInclude(attrName, includeAttributes, excludeAttributes) ==
  IF includeAttributes # None THEN Includes(includeAttributes[1], attrName)
  ELSE IF excludeAttributes # None /\ Len(excludeAttributes[1]) > 0
    THEN ~Includes(excludeAttributes[1], attrName)
  ELSE TRUE

AttrId == <<"i", "d">>
AttrName == <<"n", "a", "m", "e">>
AttrPath == <<"p", "a", "t", "h">>
AttrLine == <<"l", "i", "n", "e">>
AttrFile == <<"f", "i", "l", "e">>
AttrComponent == <<"c", "o", "m", "p", "o", "n", "e", "n", "t">>
AttrMetadata == <<"m", "e", "t", "a", "d", "a", "t", "a">>
AttrSourcemap == <<"s", "o", "u", "r", "c", "e", "m", "a", "p">>
KeyText == <<"t", "e", "x", "t">>
KeyTruncated == <<"_", "t", "r", "u", "n", "c", "a", "t", "e", "d">>

\* The six built-in attributes in the order the code sets them, each with the
\* value it has before its transformer and the transformer's field name.
BuiltIns(info) ==
  << [key |-> AttrId, field |-> "id",
      raw |-> info.path \o <<":">> \o Decimal(info.line) \o <<":">> \o Decimal(info.column)],
     [key |-> AttrName, field |-> "name", raw |-> info.name],
     [key |-> AttrPath, field |-> "path", raw |-> info.path],
     [key |-> AttrLine, field |-> "line", raw |-> Decimal(info.line)],
     [key |-> AttrFile, field |-> "file", raw |-> info.file],
     [key |-> AttrComponent, field |-> "component", raw |-> info.name] >>

\* transformers?.<field>: the transformer given for a built-in, if any. A
\* transformer is a user function: it returns a string or throws.
TransformerOf(transformers, field) ==
  IF transformers = None THEN None ELSE transformers[1][field]

NoTransformers ==
  [id |-> None, name |-> None, path |-> None, line |-> None, file |-> None,
   component |-> None]
Returns(str) == Some([throws |-> FALSE, returns |-> str])
Throws == Some([throws |-> TRUE, returns |-> <<>>])

RECURSIVE SetBuiltIns(_, _, _, _, _)
SetBuiltIns(values, builtIns, includeAttributes, excludeAttributes, transformers) ==
  IF builtIns = <<>> THEN values
  ELSE LET b == Head(builtIns)
           t == TransformerOf(transformers, b.field)
           next == IF shouldInclude(b.key, includeAttributes, excludeAttributes)
                     THEN SetProperty(values, b.key,
                            IF t = None THEN b.raw ELSE t[1].returns)
                   ELSE values
       IN SetBuiltIns(next, Tail(builtIns), includeAttributes, excludeAttributes,
                      transformers)

\* a transformer of an included built-in throws: nothing in generateAttributes
\* catches it
TransformerThrows(info, includeAttributes, excludeAttributes, transformers) ==
  \E i \in 1..Len(BuiltIns(info)) :
    LET b == BuiltIns(info)[i]
        t == TransformerOf(transformers, b.field)
    IN /\ shouldInclude(b.key, includeAttributes, excludeAttributes)
       /\ t # None
       /\ t[1].throws

MAX_METADATA_SIZE == 10240
TruncatedSuffix == <<".", ".", ".", "[", "t", "r", "u", "n", "c", "a", "t", "e", "d", "]", "\"", "}">>

\* Object.assign(metadata, info.props); metadata.text = info.content
RECURSIVE AssignAll(_, _)
AssignAll(obj, entries) ==
  IF entries = <<>> THEN obj
  ELSE AssignAll(SetProperty(obj, Head(entries).key, Head(entries).value),
                 Tail(entries))

MetadataObject(info) ==
  LET withProps == IF info.props # None THEN AssignAll(<<>>, info.props[1]) ELSE <<>>
  IN IF info.content # None /\ info.content[1] # <<>>
       THEN SetProperty(withProps, KeyText, StringValue(info.content[1]))
     ELSE withProps

\* the metadata attribute's value for a non-empty metadata object
EncodeMetadata(metadata, metadataEncoding) ==
  LET metadataJson == JsonObject(metadata)
      tooLong == Len(metadataJson) > MAX_METADATA_SIZE
      flagged == IF tooLong THEN SetProperty(metadata, KeyTruncated, TrueValue)
                 ELSE metadata
      finalMetadata == IF tooLong
                         THEN SubSeq(metadataJson, 1, MAX_METADATA_SIZE - 20)
                                \o TruncatedSuffix
                       ELSE metadataJson
  IN IF metadataEncoding = "base64" THEN encodeBase64(finalMetadata)
     ELSE IF metadataEncoding = "none" THEN ReplaceQuotes(JsonObject(flagged))
     ELSE encodeURIComponent(JsonObject(flagged))

WebpackScheme == <<"w", "e", "b", "p", "a", "c", "k", ":", "/", "/">>

MAX_CUSTOM_ATTRS == 50
MAX_ATTR_LENGTH == 1000
dangerousKeys == <<KeyProto, KeyConstructor, KeyPrototype>>
Ellipsis == <<".", ".", ".">>

\* the loop over Object.entries(custom)
RECURSIVE AddCustomAttributes(_, _, _, _)
AddCustomAttributes(values, customEntries, attrCount, prefix) ==
  IF customEntries = <<>> THEN values
  ELSE LET key == Head(customEntries).key
           value == Head(customEntries).value
           truncatedValue == IF Len(value) > MAX_ATTR_LENGTH
                               THEN SubSeq(value, 1, MAX_ATTR_LENGTH) \o Ellipsis
                             ELSE value
           cleanKey == IF StartsWith(key, prefix) THEN Slice(key, Len(prefix) + 1)
                       ELSE key
       IN IF Includes(dangerousKeys, key)
            THEN AddCustomAttributes(values, Tail(customEntries), attrCount, prefix)
          ELSE IF attrCount >= MAX_CUSTOM_ATTRS THEN values
          ELSE AddCustomAttributes(SetProperty(values, cleanKey, truncatedValue),
                                   Tail(customEntries), attrCount + 1, prefix)

\* attributeValues as it stands when formatting starts
AttributeValues(info, prefix, includeAttributes, excludeAttributes, transformers, customAttributes, metadataEncoding, includeSourceMapHints) ==
  LET builtIn == SetBuiltIns(<<>>, BuiltIns(info), includeAttributes,
                             excludeAttributes, transformers)
      metadata == MetadataObject(info)
      withMetadata ==
        IF shouldInclude(AttrMetadata, includeAttributes, excludeAttributes)
           /\ Len(metadata) > 0
          THEN SetProperty(builtIn, AttrMetadata,
                           EncodeMetadata(metadata, metadataEncoding))
        ELSE builtIn
      withSourcemap ==
        IF includeSourceMapHints
           /\ shouldInclude(AttrPath, includeAttributes, excludeAttributes)
          THEN SetProperty(withMetadata, AttrSourcemap, WebpackScheme \o info.path)
        ELSE withMetadata
  IN IF customAttributes # None /\ ~customAttributes[1].throws
       THEN AddCustomAttributes(withSourcemap, customAttributes[1].entries, 0, prefix)
     ELSE withSourcemap

\* the attributes the formatting step writes, each as its name and the text
\* put between its double quotes
FormatAttributes(attributeValues, prefix, metadataEncoding, groupAttributes) ==
  IF groupAttributes
    THEN LET grouped == JsonObject([i \in 1..Len(attributeValues) |->
                          [key |-> attributeValues[i].key,
                           value |-> StringValue(attributeValues[i].value)]])
             encoded == IF metadataEncoding = "base64" THEN encodeBase64(grouped)
                        ELSE encodeURIComponent(grouped)
         IN << [name |-> prefix, value |-> encoded] >>
  ELSE [i \in 1..Len(attributeValues) |->
          [name |-> prefix \o <<"-">> \o attributeValues[i].key,
           value |-> attributeValues[i].value]]

\* the returned string: each attribute as name="value", joined by spaces, with
\* a leading space when there is any
AttributeText(attrs) ==
  IF attrs = <<>> THEN <<>>
  ELSE <<" ">> \o Join([i \in 1..Len(attrs) |->
                          attrs[i].name \o <<"=", "\"">> \o attrs[i].value \o <<"\"">>],
                       <<" ">>)

\* generateAttributes: threw when a transformer's exception leaves the
\* function; otherwise the attributes written and the string returned
generateAttributes(info, prefix, includeAttributes, excludeAttributes, transformers, customAttributes, metadataEncoding, includeSourceMapHints, groupAttributes) ==
  IF TransformerThrows(info, includeAttributes, excludeAttributes, transformers)
    THEN [threw |-> TRUE, attrs |-> <<>>, text |-> <<>>]
  ELSE LET attrs == FormatAttributes(
                      AttributeValues(info, prefix, includeAttributes,
                                      excludeAttributes, transformers,
                                      customAttributes, metadataEncoding,
                                      includeSourceMapHints),
                      prefix, metadataEncoding, groupAttributes)
       IN [threw |-> FALSE, attrs |-> attrs, text |-> AttributeText(attrs)]

\* ------------------------------------------------- generateAttributes inputs
\* Most custom attributes one customAttributes callback returns.
MaxCustomAttrs == 2

attributePrefix == <<"d">>

Plain == <<"a">>
Markup == <<"<", "a", ">">>
Quote == <<"\"">>
Apostrophe == <<"'">>
Ampersand == <<"&">>
InputStrings == {Plain, Markup, Quote, Apostrophe, Ampersand}

CustomKeys ==
  { <<"x">>, KeyProto, KeyConstructor, KeyPrototype,
    attributePrefix \o <<"-">> \o <<"x">>,
    attributePrefix \o <<"-">> \o KeyProto,
    attributePrefix \o <<"-">> \o KeyConstructor,
    attributePrefix \o <<"-">> \o KeyPrototype,
    attributePrefix \o <<"x">> }
CustomValues == {Plain, Markup, Quote}

RECURSIVE CustomEntryLists(_)
CustomEntryLists(n) ==
  IF n = 0 THEN { <<>> }
  ELSE LET shorter == CustomEntryLists(n - 1)
       IN shorter \cup
            { Append(l, [key |-> k, value |-> v]) :
                l \in { e \in shorter : Len(e) = n - 1 },
                k \in CustomKeys, v \in CustomValues }

CustomReturns(entries) == Some([throws |-> FALSE, entries |-> entries])
CustomThrows == Some([throws |-> TRUE, entries |-> <<>>])

Info(path, name, props, content) ==
  [path |-> path, line |-> 12, column |-> 0, file |-> <<"A", ".", "t", "s", "x">>, name |-> name,
   props |-> props, content |-> content]

PlainInfo == Info(<<"s", "/", "A", ".", "t", "s", "x">>, <<"d", "i", "v">>, None, None)

Call(info, includeAttributes, excludeAttributes, transformers, customAttributes, metadataEncoding, includeSourceMapHints, groupAttributes) ==
  [info |-> info, prefix |-> attributePrefix,
   includeAttributes |-> includeAttributes, excludeAttributes |-> excludeAttributes,
   transformers |-> transformers, customAttributes |-> customAttributes,
   metadataEncoding |-> metadataEncoding,
   includeSourceMapHints |-> includeSourceMapHints,
   groupAttributes |-> groupAttributes]

MetadataEncodings == {"json", "base64", "none"}

\* calls that vary what the customAttributes callback returns
CustomCalls(most) ==
  { Call(PlainInfo, None, None, None, c, e, FALSE, g) :
      c \in {None, CustomThrows}
              \cup { CustomReturns(l) : l \in CustomEntryLists(most) },
      e \in MetadataEncodings, g \in BOOLEAN }

\* calls that vary the element's path, props and text content
PropLists ==
  { None } \cup { Some(<< [key |-> <<"k">>, value |-> StringValue(v)] >>) : v \in InputStrings }
           \cup { Some(<< [key |-> <<"b">>, value |-> TrueValue] >>) }
ContentTexts == { None } \cup { Some(v) : v \in InputStrings }
InfoPaths == { <<"s", "/", "A", ".", "t", "s", "x">>, <<"o", "'", "s", "/", "A", ".", "t", "s", "x">>, <<"b", "&", "c", "/", "A", ".", "t", "s", "x">> }

MetadataCalls ==
  { Call(Info(p, <<"d", "i", "v">>, props, content), None, None, None, None, e, h, g) :
      p \in InfoPaths, props \in PropLists, content \in ContentTexts,
      e \in MetadataEncodings, h \in BOOLEAN, g \in BOOLEAN }

\* calls that vary one transformer and the allow / deny lists
TransformerFields == {"id", "name", "path", "line", "file", "component"}
TransformerSets ==
  { None } \cup
  { Some([NoTransformers EXCEPT ![f] = t]) :
      f \in TransformerFields, t \in {Throws} \cup { Returns(v) : v \in InputStrings } }
AttributeLists ==
  { None, Some(<<>>), Some(<<AttrId>>), Some(<<AttrName, AttrMetadata>>) }

TransformerCalls ==
  { Call(PlainInfo, inc, exc, t, None, "json", FALSE, g) :
      inc \in AttributeLists, exc \in AttributeLists, t \in TransformerSets,
      g \in BOOLEAN }

AttrCalls(most) == CustomCalls(most) \cup MetadataCalls \cup TransformerCalls

InitAttr ==
  /\ Fresh(DefaultOptions, {})
  /\ arg \in AttrCalls(MaxCustomAttrs)

Generate ==
  /\ ret = <<>>
  /\ ret' = Some(generateAttributes(arg.info, arg.prefix, arg.includeAttributes,
                   arg.excludeAttributes, arg.transformers, arg.customAttributes,
                   arg.metadataEncoding, arg.includeSourceMapHints,
                   arg.groupAttributes))
  /\ UNCHANGED <<config, stats, pc, file, walkVars, result, snapshot, written,
                 project, callback, ended, arg>>

NextAttr == Generate

SpecAttr == InitAttr /\ [][NextAttr]_vars


\* ------------------------------------------------- oversized metadata inputs
\* text content of n copies of one character
LongText(char, n) == [i \in 1..n |-> char]

\* JSON.stringify({text: <n plain characters>}) has n + 11 characters: the
\* lengths below put the metadata just under, at, just over and well over
\* MAX_METADATA_SIZE
LongTextLengths ==
  { MAX_METADATA_SIZE - 12, MAX_METADATA_SIZE - 11, MAX_METADATA_SIZE - 10,
    MAX_METADATA_SIZE + 7 }
LongTextChars == { "a", "<", "&" }

LongMetadataCalls ==
  { Call(Info(<<"s", "/", "A", ".", "t", "s", "x">>, <<"d", "i", "v">>, props, Some(LongText(c, n))), None, None, None, None, e, FALSE, FALSE) :
      props \in { None, Some(<< [key |-> <<"b">>, value |-> TrueValue] >>) },
      c \in LongTextChars, n \in LongTextLengths, e \in MetadataEncodings }

InitMetadata ==
  /\ Fresh(DefaultOptions, {})
  /\ arg \in LongMetadataCalls

SpecMetadata == InitMetadata /\ [][NextAttr]_vars

\* --------------------------------------------------- allow / deny inputs
\* calls that vary the allowlist and the denylist together with what else
\* decides an attribute: props for metadata, the source map hint, and a
\* customAttributes callback
FilterLists ==
  { None, Some(<<>>), Some(<<AttrId>>), Some(<<AttrPath>>),
    Some(<<AttrName, AttrMetadata>>) }

FilterCalls ==
  { Call(Info(<<"s", "/", "A", ".", "t", "s", "x">>, <<"d", "i", "v">>, props, None), inc, exc, None, c, "json", h, FALSE) :
      inc \in FilterLists, exc \in FilterLists,
      props \in { None, Some(<< [key |-> <<"b">>, value |-> TrueValue] >>) },
      c \in { None, CustomReturns(<< [key |-> <<"x">>, value |-> Plain] >>) },
      h \in BOOLEAN }

InitAllowlist ==
  /\ Fresh(DefaultOptions, {})
  /\ arg \in FilterCalls

SpecAllowlist == InitAllowlist /\ [][NextAttr]_vars

\* ============================================================== presets
\* An options object is a function from the keys it has to their values; a
\* value is Some(v), or None for undefined. A transformers value holds the
\* set of <<key, function>> pairs of the transformers object.
Get(obj, key) == IF key \in DOMAIN obj THEN obj[key] ELSE None

\* { ...a, ...b }
Spread(a, b) == b @@ a

\* { ...a, ...b } of two transformers values; spreading undefined adds nothing
SpreadTransformers(a, b) ==
  LET fromA == IF a = None THEN {} ELSE a[1]
      fromB == IF b = None THEN {} ELSE b[1]
  IN fromB \cup { p \in fromA : \A q \in fromB : q[1] # p[1] }

PRESETS ==
  [minimal |->
     ("includeAttributes" :> Some(<<"id">>)) @@ ("includeProps" :> Some(FALSE))
       @@ ("includeContent" :> Some(FALSE)),
   testing |->
     ("includeAttributes" :> Some(<<"id", "name", "component">>))
       @@ ("includeProps" :> Some(FALSE)) @@ ("includeContent" :> Some(FALSE)),
   debugging |->
     ("includeProps" :> Some(TRUE)) @@ ("includeContent" :> Some(TRUE))
       @@ ("debug" :> Some(TRUE)),
   production |->
     ("includeAttributes" :> Some(<<"id", "line">>))
       @@ ("transformers" :> Some({ <<"path", "presetPath">>, <<"id", "presetId">> }))]

\* applyPreset with the two spreads in the other order
applyPresetPresetFirst(options) ==
  IF Get(options, "preset") = None THEN [threw |-> FALSE, options |-> options]
  ELSE IF options["preset"][1] \notin DOMAIN PRESETS
    THEN [threw |-> TRUE, options |-> options]
  ELSE LET preset == PRESETS[options["preset"][1]]
           mine == Get(options, "transformers")
           theirs == Get(preset, "transformers")
       IN [threw |-> FALSE,
           options |->
             Spread(Spread(options, preset),
                    "transformers" :>
                      (IF mine # None \/ theirs # None
                         THEN Some(SpreadTransformers(mine, theirs))
                       ELSE None))]

\* applyPreset(options). PRESETS[options.preset] of a name that is no preset
\* is undefined, and reading its transformers throws a TypeError.
applyPreset(options) ==
  IF Get(options, "preset") = None THEN [threw |-> FALSE, options |-> options]
  ELSE IF options["preset"][1] \notin DOMAIN PRESETS
    THEN [threw |-> TRUE, options |-> options]
  ELSE LET preset == PRESETS[options["preset"][1]]
           mine == Get(options, "transformers")
           theirs == Get(preset, "transformers")
       IN [threw |-> FALSE,
           options |->
             Spread(Spread(preset, options),
                    "transformers" :>
                      (IF mine # None \/ theirs # None
                         THEN Some(SpreadTransformers(theirs, mine))
                       ELSE None))]

\* ------------------------------------------------------- preset inputs
\* the objects that have the key with one of the values, or do not have it
Optional(key, values) == { <<>> } \cup { key :> v : v \in values }

UserTransformers ==
  { None, Some({}), Some({ <<"id", "user">> }), Some({ <<"name", "user">> }),
    Some({ <<"id", "user">>, <<"path", "user">> }) }

UserOptions ==
  { p @@ a @@ i @@ d @@ t :
      p \in Optional("preset", { Some(n) : n \in DOMAIN PRESETS \cup {"unknown"} }),
      a \in Optional("includeAttributes", { None, Some(<<"name">>) }),
      i \in Optional("includeProps", { Some(TRUE), Some(FALSE) }),
      d \in Optional("debug", { Some(FALSE) }),
      t \in Optional("transformers", UserTransformers) }

InitPreset ==
  /\ Fresh(DefaultOptions, {})
  /\ arg \in UserOptions

\* componentDebugger, "Apply preset configuration first"
ApplyPreset ==
  /\ ret = <<>>
  /\ ret' = Some(applyPreset(arg))
  /\ UNCHANGED <<config, stats, pc, file, walkVars, result, snapshot, written,
                 project, callback, ended, arg>>

NextPreset == ApplyPreset

SpecPreset == InitPreset /\ [][NextPreset]_vars


\* ============================================================ insertion
\* String.prototype.lastIndexOf: the 0-based index of the last occurrence of
\* pat in str, -1 when there is none
LastIndexOf(str, pat) ==
  LET hits == { i \in 0..(Len(str) - Len(pat)) :
                  SubSeq(str, i + 1, i + Len(pat)) = pat }
  IN IF hits = {} THEN 0 - 1
     ELSE CHOOSE i \in hits : \A j \in hits : j <= i

\* String.prototype.substring(from, to), 0-based
Substring(str, from, to) == SubSeq(str, from + 1, to)

\* the insertion offset that falls back to the span end itself
InsertPositionAtSpanEnd(code, elementStart, elementEnd, selfClosing) ==
  LET elementCode == Substring(code, elementStart, elementEnd)
      found == LastIndexOf(elementCode, IF selfClosing THEN <<"/", ">">> ELSE <<">">>)
  IN IF found = 0 - 1 THEN elementEnd ELSE elementStart + found

\* transform, "Insert attributes into the code": the offset in the file at
\* which the attributes go
InsertPosition(code, elementStart, elementEnd, selfClosing) ==
  LET elementCode == Substring(code, elementStart, elementEnd)
  IN IF selfClosing
       THEN LET selfClosingMatch == LastIndexOf(elementCode, <<"/", ">">>)
            IN IF selfClosingMatch = 0 - 1 THEN elementEnd - 2
               ELSE elementStart + selfClosingMatch
     ELSE LET closingMatch == LastIndexOf(elementCode, <<">">>)
          IN IF closingMatch = 0 - 1 THEN elementEnd - 1
             ELSE elementStart + closingMatch

\* magicString.appendLeft(insertPosition, attributes); magicString.toString()
AppendLeft(code, insertPosition, attributes) ==
  Substring(code, 0, insertPosition) \o attributes
    \o Substring(code, insertPosition, Len(code))

\* ----------------------------------------------------- insertion inputs
\* An opening tag as the parser reads it: "<", the name, what stands between
\* the name and the closing delimiter, and the delimiter: ">", or "/" and ">"
\* with the white space the JSX grammar allows between the two tokens.
TagInsides ==
  { <<>>, <<"<", "T", ">">>, <<" ", "t", "=", "\"", ">", "\"">>, <<" ", "r", "=", "{", "<", "b", "/", ">", "}">>, <<" ", "t", "=", "\"", "/", ">", "\"">>, <<" ", "/", "*", ">", "*", "/">> }
TagGaps == { <<>>, <<" ">> }

OpeningTag(inside, selfClosing, gap) ==
  [before |-> <<"<", "a">> \o inside,
   delimiter |-> IF selfClosing THEN <<"/">> \o gap \o <<">">> ELSE <<">">>,
   selfClosing |-> selfClosing]

OpeningTags ==
  { OpeningTag(inside, FALSE, <<>>) : inside \in TagInsides }
    \cup { OpeningTag(inside, TRUE, gap) : inside \in TagInsides, gap \in TagGaps }

CodeBefore == { <<>>, <<"(", "<", "i", ">">> }
CodeAfter == { <<>>, <<"x", "<", "/", "a", ">">> }

AttributesText == <<" ", "d", "-", "i", "d", "=", "\"", "1", "\"">>

InsertCalls ==
  [tag : OpeningTags, codeBefore : CodeBefore, codeAfter : CodeAfter]

InitInsert ==
  /\ Fresh(DefaultOptions, {})
  /\ arg \in InsertCalls

\* the insertion of the attributes of one tagged opening element
Insert ==
  /\ ret = <<>>
  /\ LET span == arg.tag.before \o arg.tag.delimiter
         code == arg.codeBefore \o span \o arg.codeAfter
         elementStart == Len(arg.codeBefore)
         elementEnd == elementStart + Len(span)
         insertPosition == InsertPosition(code, elementStart, elementEnd,
                                          arg.tag.selfClosing)
     IN ret' = Some([insertPosition |-> insertPosition,
                     code |-> AppendLeft(code, insertPosition, AttributesText)])
  /\ UNCHANGED <<config, stats, pc, file, walkVars, result, snapshot, written,
                 project, callback, ended, arg>>

NextInsert == Insert

SpecInsert == InitInsert /\ [][NextInsert]_vars


\* ================================================================ splice
\* A MagicString over the source: the text appended left of each offset of
\* the original, 0..Len(code). appendLeft adds after what the offset already
\* holds, and toString writes, for each offset, its text and then the
\* original character.
NewMagicString(code) == [i \in 0..Len(code) |-> <<>>]

MagicAppendLeft(intro, index, content) ==
  [intro EXCEPT ![index] = @ \o content]

\* toString that lets inserted text take the place of the character after it
MagicToStringOverwrites(code, intro) ==
  Flatten([i \in 1..(Len(code) + 1) |->
             IF intro[i - 1] # <<>> THEN intro[i - 1]
             ELSE IF i <= Len(code) THEN <<code[i]>> ELSE <<>>])

MagicToString(code, intro) ==
  Flatten([i \in 1..(Len(code) + 1) |->
             intro[i - 1] \o (IF i <= Len(code) THEN <<code[i]>> ELSE <<>>)])

\* the walk over the opening elements of a file in document order: each
\* tagged element's attributes are appended left of its insertion offset
RECURSIVE SpliceAll(_, _, _)
SpliceAll(code, intro, elements) ==
  IF elements = <<>> THEN intro
  ELSE LET el == Head(elements)
           next == IF el.tagged
                     THEN MagicAppendLeft(intro,
                            InsertPosition(code, el.start, el.end, el.selfClosing),
                            el.attributes)
                   ELSE intro
       IN SpliceAll(code, next, Tail(elements))

\* transform's result for a file that parses and whose callbacks return:
\* the spliced code when an element was tagged, otherwise null
TransformResult(code, elements) ==
  LET tagged == Cardinality({ i \in 1..Len(elements) : elements[i].tagged })
  IN IF tagged > 0
       THEN Some(MagicToString(code, SpliceAll(code, NewMagicString(code), elements)))
     ELSE None

\* -------------------------------------------------------- splice inputs
OpeningElement(start, span, selfClosing, tagged, attributes) ==
  [start |-> start, end |-> start + Len(span), selfClosing |-> selfClosing,
   tagged |-> tagged, attributes |-> attributes]

FirstAttributes == <<" ", "d", "-", "i", "d", "=", "\"", "1", "\"">>
SecondAttributes == <<" ", "d", "-", "i", "d", "=", "\"", "2", "\"">>

\* <a ...> with a child element and its closing tag
ParentAndChild(parent, child, first, second) ==
  LET parentSpan == parent.before \o parent.delimiter
      childSpan == child.before \o child.delimiter
  IN [code |-> parentSpan \o childSpan \o <<"<", "/", "a", ">">>,
      elements |-> << OpeningElement(0, parentSpan, FALSE, first, FirstAttributes),
                      OpeningElement(Len(parentSpan), childSpan, child.selfClosing,
                                     second, SecondAttributes) >>]

\* a self-closing element with another element inside an attribute value
ElementInAttribute(inner, gap, first, second) ==
  LET innerSpan == inner.before \o inner.delimiter
      outerSpan == <<"<", "c", " ", "r", "=", "{">> \o innerSpan \o <<"}">> \o <<"/">> \o gap \o <<">">>
  IN [code |-> outerSpan,
      elements |-> << OpeningElement(0, outerSpan, TRUE, first, FirstAttributes),
                      OpeningElement(6, innerSpan, inner.selfClosing, second,
                                     SecondAttributes) >>]

SpliceFiles ==
  { ParentAndChild(parent, child, first, second) :
      parent \in { t \in OpeningTags : ~t.selfClosing /\ t.before \in { <<"<", "a">>, <<"<", "a", "<", "T", ">">> } },
      child \in { t \in OpeningTags : t.before \in { <<"<", "a">>, <<"<", "a", " ", "t", "=", "\"", "/", ">", "\"">> } },
      first \in BOOLEAN, second \in BOOLEAN }
    \cup { ElementInAttribute(inner, gap, first, second) :
             inner \in { t \in OpeningTags : t.selfClosing /\ t.before = <<"<", "a">> },
             gap \in TagGaps, first \in BOOLEAN, second \in BOOLEAN }

InitSplice ==
  /\ Fresh(DefaultOptions, {})
  /\ arg \in SpliceFiles

\* one transform call, from the source text to the returned code
Splice ==
  /\ ret = <<>>
  /\ ret' = Some([code |-> TransformResult(arg.code, arg.elements)])
  /\ UNCHANGED <<config, stats, pc, file, walkVars, result, snapshot, written,
                 project, callback, ended, arg>>

NextSplice == Splice

SpecSplice == InitSplice /\ [][NextSplice]_vars


\* ================================================================== claims

\* TRUE when the segments of path w lie below the project root
InsideRoot(w) ==
  /\ Len(w) >= Len(projectRoot)
  /\ SubSeq(w, 1, Len(projectRoot)) = projectRoot

HasDotDot(p) == \E i \in 1..Len(p.segs) : p.segs[i] = DotDot

\* C1: buildEnd writes the statistics file only to a path inside the project
\* root; an exportStats path that contains ".." or resolves outside the root
\* (a sibling directory whose name begins with the root's name included) is
\* never written.
C1_ExportStaysInsideRoot ==
  \A w \in written :
    /\ InsideRoot(w)
    /\ config.exportStats # None
    /\ ~HasDotDot(config.exportStats[1])

\* The escape entities of & < > " and '
EscapeEntities == { <<"&", "a", "m", "p", ";">>, <<"&", "l", "t", ";">>, <<"&", "g", "t", ";">>, <<"&", "q", "u", "o", "t", ";">>, <<"&", "#", "3", "9", ";">> }

StartsEntityAt(str, i) ==
  \E e \in EscapeEntities :
    /\ i + Len(e) - 1 <= Len(str)
    /\ SubSeq(str, i, i + Len(e) - 1) = e

EscapedValue(str) ==
  \A i \in 1..Len(str) :
    /\ str[i] \notin {"<", ">", "\"", "'"}
    /\ str[i] = "&" => StartsEntityAt(str, i)

\* C2: every attribute value generateAttributes writes, whatever its origin and
\* in discrete and in grouped mode, contains no raw < > " ' and no & other
\* than as the start of an escape entity.
C2_ValuesEscaped ==
  ret # <<>> => \A i \in 1..Len(ret[1].attrs) : EscapedValue(ret[1].attrs[i].value)

\* C3: no attribute written has a name whose part after the attribute prefix
\* is __proto__, constructor or prototype, whether the customAttributes
\* callback gave the key bare or with the prefix.
C3_NoDangerousName ==
  ret # <<>> =>
    \A i \in 1..Len(ret[1].attrs) :
      \A j \in 1..Len(dangerousKeys) :
        ret[1].attrs[i].name # arg.prefix \o <<"-">> \o dangerousKeys[j]

\* The file of the running or last transform call passed the skip checks and
\* parses, so that only the path filter decides whether it is processed.
PastSkipChecks ==
  /\ file # NoFile
  /\ file.parses
  /\ stats.totalFiles = snapshot.totalFiles + 1

\* That call returned null at the path filter
FilteredOut == pc = "idle" /\ visit = "none"

Qualifies(relativePath, includePaths, excludePaths) ==
  /\ \/ includePaths = None
     \/ includePaths[1] = <<>>
     \/ \E i \in 1..Len(includePaths[1]) : minimatch(relativePath, includePaths[1][i])
  /\ \/ excludePaths = None
     \/ excludePaths[1] = <<>>
     \/ ~\E i \in 1..Len(excludePaths[1]) : minimatch(relativePath, excludePaths[1][i])

\* C4: a file is processed if and only if (includePaths is absent or empty, or
\* the path matches an include pattern) and (excludePaths is absent or empty,
\* or the path matches no exclude pattern).
C4_ProcessedIffQualifies ==
  PastSkipChecks =>
    (~FilteredOut <=> Qualifies(file.path, config.includePaths, config.excludePaths))

\* C5: when a file throws during its walk, processedFiles, totalElements and
\* every byElementType entry keep the values they had before the file, and the
\* error counter grows by exactly one.
C5_ThrowCommitsNothing ==
  (pc = "idle" /\ visit = "threw") =>
    /\ stats.processedFiles = snapshot.processedFiles
    /\ stats.totalElements = snapshot.totalElements
    /\ stats.byElementType = snapshot.byElementType
    /\ stats.errors = snapshot.errors + 1

\* C6: when onTransform throws, transform still returns the tagged code and no
\* statistics counter differs from what it is when the callback returns: the
\* file is committed and the error counter is not touched.
C6_OnTransformThrowHarmless ==
  callback.outcome = "throws" =>
    /\ result = "code"
    /\ stats.errors = snapshot.errors
    /\ stats.processedFiles = snapshot.processedFiles + 1
    /\ stats.totalElements = snapshot.totalElements + callback.elementsTagged

\* Number of JSX element nodes entered and not yet left
RECURSIVE OpenElements(_)
OpenElements(path) ==
  IF path = <<>> THEN 0
  ELSE (IF Head(path) = "JSXElement" THEN 1 ELSE 0) + OpenElements(Tail(path))

\* C7: at every opening tag the depth used for gating is the length of the
\* marker stack, which is the number of JSX elements entered and not yet left
\* and equals the depth counter; the stack is empty when the walk ends.
C7_DepthIsStackLength ==
  /\ [](pc \in {"walk", "open"} =>
          /\ Len(depthStack) = OpenElements(walkPath)
          /\ currentDepth = Len(depthStack))
  /\ []((pc = "walk" /\ walkPath = <<>>) => (depthStack = <<>> /\ currentDepth = 0))
  /\ [][(pc = "open" /\ elementDepth' # 0) =>
          (elementDepth' = Len(depthStack) /\ elementDepth' = OpenElements(walkPath))]_vars

\* An opening tag between a fragment and its enclosing element was tagged at
\* depth 2 while three nodes were open
C7_Witness ==
  /\ pc = "walk"
  /\ visit = "tagged"
  /\ elementDepth = 2
  /\ walkPath = <<"JSXElement", "JSXFragment", "JSXElement">>
  /\ depthStack = <<1, 2>>

\* The opening tag visited last reached depth gating, and passed it
GateReached == elementDepth # 0
GatePassed == GateReached /\ visit # "depth"

\* C8 as stated: in root-only mode depth gating passes exactly the elements at
\* depth 1, whatever minDepth and maxDepth are.
C8_RootsOnlyIgnoresBounds ==
  (config.tagOnlyRoots /\ GateReached) => (GatePassed <=> elementDepth = 1)

\* C8 as amended: in root-only mode depth gating passes only elements at depth
\* 1, and passes such an element exactly when the effective minDepth is at
\* most 1; the minDepth check is consulted in root-only mode too.
C8_RootsOnlyWithinMinDepth ==
  (config.tagOnlyRoots /\ GateReached) =>
    (GatePassed <=> (elementDepth = 1 /\ config.minDepth <= 1))

\* A root element tagged in root-only mode with both bounds configured
C8_Witness ==
  /\ config.tagOnlyRoots
  /\ config.minDepth = 1
  /\ config.maxDepth = 3
  /\ visit = "tagged"
  /\ elementDepth = 1

\* C9: with root-only mode off an element at depth d passes depth gating if and
\* only if (minDepth is 0 or d >= minDepth) and (maxDepth is 0 or d <= maxDepth);
\* with minDepth 2 and maxDepth 3 exactly the elements at depths 2 and 3 are
\* tagged.
C9_DepthBounds ==
  (~config.tagOnlyRoots /\ GateReached) =>
    /\ GatePassed <=>
         /\ (config.minDepth = 0 \/ elementDepth >= config.minDepth)
         /\ (config.maxDepth = 0 \/ elementDepth <= config.maxDepth)
    /\ (config.minDepth = 2 /\ config.maxDepth = 3) =>
         (visit = "tagged" <=> elementDepth \in {2, 3})

\* The fifth level of a 5-level nest was rejected under minDepth 2, maxDepth 3
\* after exactly two elements, those at depths 2 and 3, were tagged
C9_Witness ==
  /\ ~config.tagOnlyRoots
  /\ config.minDepth = 2
  /\ config.maxDepth = 3
  /\ walkPath = <<"JSXElement", "JSXElement", "JSXElement", "JSXElement", "JSXElement">>
  /\ elementDepth = 5
  /\ visit = "depth"
  /\ elementCount = 2

\* C10: for every pair of minDepth and maxDepth options the effective bounds
\* both lie in 0..50.
C10_EffectiveDepthsInRange ==
  ret # None =>
    /\ ret[1].minDepth \in 0..MAX_DEPTH_LIMIT
    /\ ret[1].maxDepth \in 0..MAX_DEPTH_LIMIT

\* The local names the file's import declarations from the three.js libraries
\* give with specifiers of the given type, wherever the declarations stand
RecordedImports(f, type) ==
  { f.imports[i].local :
      i \in { j \in 1..Len(f.imports) :
                f.imports[j].source \in ThreeSources /\ f.imports[j].type = type } }

\* The name of the opening element as written in the file is excluded
WrittenNameExcluded ==
  \/ node.segs \in config.excludeElements
  \/ node.segs \in config.customExcludes
  \/ (Len(node.segs) = 1 /\ node.segs[1] \in RecordedImports(file, "ImportSpecifier"))
  \/ (Len(node.segs) > 1
        /\ node.segs[1] \in RecordedImports(file, "ImportNamespaceSpecifier"))

\* C11: an element is never tagged if its written name is in the exclude list,
\* in the custom-exclude set, a recorded named import, or has a leading dotted
\* segment that is a recorded namespace import, member names with three or
\* more segments included.
C11_ExcludedNeverTagged ==
  [][(pc = "open" /\ WrittenNameExcluded) => visit' # "tagged"]_vars

\* C12: the import scan of a file is complete before any of its elements is
\* classified: an element is excluded exactly when its name is excluded under
\* the imports of the whole file, wherever the declarations stand.
C12_ScanCompleteBeforeTagging ==
  [][(pc = "open" /\ ElementName(node) # None) =>
       (visit' = "excluded" <=>
          shouldExcludeElement(ElementName(node)[1], config.excludeElements,
                               config.customExcludes,
                               RecordedImports(file, "ImportSpecifier"),
                               RecordedImports(file, "ImportNamespaceSpecifier")))]_vars

\* An element was excluded in a file whose only import stands below the JSX
C12_Witness ==
  /\ pc = "walk"
  /\ visit = "excluded"
  /\ Len(file.imports) = 1
  /\ file.imports[1].place = "bottom"

\* C13: when shouldTag throws for an element, the element is tagged as it is
\* when shouldTag returns true, the file is not counted as an error, and the
\* walk goes on with the remaining elements, which are tagged in their turn.
C13_ShouldTagThrowTagsElement ==
  /\ [][(pc = "open" /\ answered' = "throws") =>
          /\ visit' = "tagged"
          /\ elementCount' = elementCount + 1
          /\ elementNames' = Append(elementNames, ElementName(node)[1])
          /\ stats' = CountElementType(stats, ElementName(node)[1])
          /\ pc' = "walk"]_vars
  /\ [][(pc = "open" /\ answered' = "true") =>
          /\ visit' = "tagged"
          /\ elementCount' = elementCount + 1]_vars
  /\ [](stats.errors = 0)

\* shouldTag threw at the second element tagged in a file
C13_Witness ==
  /\ config.shouldTag
  /\ answered = "throws"
  /\ visit = "tagged"
  /\ elementCount = 2

\* C14: the attributes of a tagged opening element are inserted immediately
\* before the tag's own closing delimiter, whatever > or /> the tag holds
\* before it.
C14_InsertedBeforeOwnDelimiter ==
  ret # <<>> =>
    /\ ret[1].insertPosition = Len(arg.codeBefore) + Len(arg.tag.before)
    /\ ret[1].code = arg.codeBefore \o arg.tag.before \o AttributesText
                       \o arg.tag.delimiter \o arg.codeAfter

\* the value written for the metadata attribute by the call that returned
MetadataValue ==
  LET attrs == ret[1].attrs
      name == arg.prefix \o <<"-">> \o AttrMetadata
      i == CHOOSE i \in 1..Len(attrs) : attrs[i].name = name
  IN attrs[i].value

\* C15: metadata whose JSON is longer than 10240 characters is written, in
\* every encoding, as a value of at most 10240 characters, and never as the
\* encoding of the whole payload.
C15_OversizedMetadataTruncated ==
  (ret # <<>> /\ Len(JsonObject(MetadataObject(arg.info))) > MAX_METADATA_SIZE) =>
    /\ Len(MetadataValue) <= MAX_METADATA_SIZE
    /\ \A whole \in { MetadataObject(arg.info),
                       SetProperty(MetadataObject(arg.info), KeyTruncated, TrueValue) } :
         MetadataValue \notin { encodeURIComponent(JsonObject(whole)),
                                ReplaceQuotes(JsonObject(whole)),
                                encodeBase64(JsonObject(whole)) }

\* the names of the attributes the call that returned wrote, without the
\* prefix and its dash
EmittedNames ==
  { Slice(ret[1].attrs[i].name, Len(arg.prefix) + 1) : i \in 1..Len(ret[1].attrs) }

ListedNames(list) == { list[1][i] : i \in 1..Len(list[1]) }

BuiltInNames == { AttrId, AttrName, AttrPath, AttrLine, AttrFile, AttrComponent }

BothListsGiven ==
  /\ ret # <<>>
  /\ arg.includeAttributes # None
  /\ arg.excludeAttributes # None

\* C16 as stated: with an allowlist and a denylist both configured, the set
\* of emitted attributes is exactly the allowlist.
C16_EmittedIsAllowlist ==
  BothListsGiven => EmittedNames = ListedNames(arg.includeAttributes)

\* C16: with an allowlist and a denylist both configured the denylist decides
\* nothing. A built-in attribute is emitted iff the allowlist names it;
\* metadata iff the allowlist names it and the element has props or text; the
\* source map hint iff hints are on and the allowlist names path; custom
\* attributes whatever the lists say.
C16_AllowlistDecides ==
  BothListsGiven =>
    LET allowed == ListedNames(arg.includeAttributes)
    IN /\ EmittedNames \cap BuiltInNames = allowed \cap BuiltInNames
       /\ AttrMetadata \in EmittedNames
            <=> (AttrMetadata \in allowed /\ MetadataObject(arg.info) # <<>>)
       /\ AttrSourcemap \in EmittedNames
            <=> (arg.includeSourceMapHints /\ AttrPath \in allowed)
       /\ arg.customAttributes # None => <<"x">> \in EmittedNames

C16_Witness ==
  /\ BothListsGiven
  /\ arg.includeAttributes = Some(<<AttrName, AttrMetadata>>)
  /\ arg.excludeAttributes = Some(<<AttrName, AttrMetadata>>)
  /\ EmittedNames = { AttrName, AttrMetadata }

\* the keys a customAttributes callback returned that are not dangerous keys,
\* before or after the prefix is taken off
CustomKeysReturned ==
  IF ret = <<>> \/ arg.customAttributes = None \/ arg.customAttributes[1].throws
     \/ arg.groupAttributes
    THEN {}
  ELSE { k \in { arg.customAttributes[1].entries[i].key :
                   i \in 1..Len(arg.customAttributes[1].entries) } :
           /\ ~Includes(dangerousKeys, k)
           /\ ~Includes(dangerousKeys, Slice(k, Len(arg.prefix) + 1)) }

HasPrefixAndDash(key) ==
  /\ Len(key) > Len(arg.prefix)
  /\ SubSeq(key, 1, Len(arg.prefix) + 1) = arg.prefix \o <<"-">>

\* C17: a custom attribute key loses the prefix and the dash after it exactly
\* when it starts with both; a key that starts with the prefix text without
\* the dash is emitted unchanged.
C17_PrefixStrippedOnlyWithDash ==
  \A key \in CustomKeysReturned :
    IF HasPrefixAndDash(key) THEN Slice(key, Len(arg.prefix) + 1) \in EmittedNames
    ELSE key \in EmittedNames

\* the built-in attributes of the call whose transformer throws and which
\* the allowlist and the denylist let through
ThrowingBuiltIns ==
  { i \in 1..Len(BuiltIns(arg.info)) :
      LET b == BuiltIns(arg.info)[i]
          t == TransformerOf(arg.transformers, b.field)
      IN /\ shouldInclude(b.key, arg.includeAttributes, arg.excludeAttributes)
         /\ t # None
         /\ t[1].throws }

\* C18: when a transformer throws, its attribute is emitted with the value it
\* had before the transformer and the call still returns its attributes.
C18_ThrowingTransformerKeepsRawValue ==
  (ret # <<>> /\ ~arg.groupAttributes) =>
    \A i \in ThrowingBuiltIns :
      /\ ~ret[1].threw
      /\ \E j \in 1..Len(ret[1].attrs) :
           /\ ret[1].attrs[j].name = arg.prefix \o <<"-">> \o BuiltIns(arg.info)[i].key
           /\ ret[1].attrs[j].value = BuiltIns(arg.info)[i].raw

\* C19: an onComplete callback that throws does not make buildEnd throw: the
\* hook returns, and the statistics export after the callback is still
\* attempted.
C19_OnCompleteThrowContained ==
  config.onComplete => ended # "threw"

\* the preset the options name, when they name one
PresetApplied ==
  /\ ret # <<>>
  /\ Get(arg, "preset") # None
  /\ arg["preset"][1] \in DOMAIN PRESETS

NamedPreset == PRESETS[arg["preset"][1]]

TransformerKeys(value) == IF value = None THEN {} ELSE { p[1] : p \in value[1] }

\* C20: with a preset applied, an option the user supplied keeps the user's
\* value and an option the user left out takes the preset's; transformers are
\* merged key by key, the user's function winning, and the merge succeeds
\* when the user, the preset or both have no transformers.
C20_UserWinsTransformersMerged ==
  PresetApplied =>
    LET out == ret[1].options
        mine == Get(arg, "transformers")
        theirs == Get(NamedPreset, "transformers")
        merged == Get(out, "transformers")
    IN /\ ~ret[1].threw
       /\ \A key \in (DOMAIN arg \cup DOMAIN NamedPreset \cup DOMAIN out) \ {"transformers"} :
            /\ key \in DOMAIN out
            /\ out[key] = IF key \in DOMAIN arg THEN arg[key] ELSE NamedPreset[key]
       /\ (mine = None /\ theirs = None) => merged = None
       /\ (mine # None \/ theirs # None) =>
            /\ merged # None
            /\ TransformerKeys(merged) = TransformerKeys(mine) \cup TransformerKeys(theirs)
            /\ \A p \in merged[1] :
                 IF p[1] \in TransformerKeys(mine) THEN p \in mine[1] ELSE p \in theirs[1]

C20_Witness ==
  /\ PresetApplied
  /\ arg["preset"] = Some("production")
  /\ Get(arg, "transformers") = Some({ <<"id", "user">> })
  /\ Get(arg, "includeAttributes") = Some(<<"name">>)
  /\ ret[1].options["transformers"] = Some({ <<"id", "user">>, <<"path", "presetPath">> })
  /\ ret[1].options["includeAttributes"] = Some(<<"name">>)

\* the options object without one key
Without(obj, key) == [k \in DOMAIN obj \ {key} |-> obj[k]]

\* C21: a preset name that is not a defined preset never makes construction
\* throw, and the options that result are those of the same object with no
\* preset, with or without user transformers.
C21_UnknownPresetFallsBack ==
  (ret # <<>> /\ Get(arg, "preset") # None /\ arg["preset"][1] \notin DOMAIN PRESETS) =>
    /\ ~ret[1].threw
    /\ Without(ret[1].options, "preset") = applyPreset(Without(arg, "preset")).options

\* the element being classified is statically excluded or has no name
StaticallyExcluded ==
  \/ ElementName(node) = None
  \/ shouldExcludeElement(ElementName(node)[1], config.excludeElements,
                          config.customExcludes, importedFromDrei(file),
                          namespaceImports(file))

\* the element being classified fails one of the three depth checks
OutsideDepthRange ==
  \/ (config.tagOnlyRoots /\ Len(depthStack) > 1)
  \/ (config.minDepth > 0 /\ Len(depthStack) < config.minDepth)
  \/ (config.maxDepth > 0 /\ Len(depthStack) > config.maxDepth)

\* C22: shouldTag is invoked only for an element that passed static exclusion
\* and depth gating; generateAttributes, which invokes the transformers and
\* customAttributes, runs only for an element shouldTag accepted or threw on;
\* no callback is invoked for an excluded or depth-rejected element.
C22_CallbackOrder ==
  [][pc = "open" =>
       /\ answered' # "none" => (~StaticallyExcluded /\ ~OutsideDepthRange)
       /\ visit' \in {"tagged", "threw"} =>
            /\ ~StaticallyExcluded /\ ~OutsideDepthRange
            /\ config.shouldTag => answered' \in {"true", "throws"}
       /\ (StaticallyExcluded \/ OutsideDepthRange) =>
            (answered' = "none" /\ visit' \notin {"tagged", "threw", "rejected"})]_vars

C22_Witness ==
  /\ config.shouldTag /\ config.transformers /\ config.maxDepth = 2
  /\ answered = "true"
  /\ visit = "threw"
  /\ stats.errors = 2

\* C23: over any sequence of transform and buildEnd calls no statistics
\* counter decreases, and buildEnd leaves every counter as it is, however
\* often it is called.
C23_CountersNeverDecrease ==
  /\ [][/\ stats'.totalFiles >= stats.totalFiles
        /\ stats'.processedFiles >= stats.processedFiles
        /\ stats'.totalElements >= stats.totalElements
        /\ stats'.errors >= stats.errors
        /\ \A name \in DOMAIN stats.byElementType :
             stats'.byElementType[name] >= stats.byElementType[name]]_vars
  /\ [][BuildEnd => stats' = stats]_vars

C23_Witness ==
  /\ ended = "returned"
  /\ pc = "idle"
  /\ stats.totalFiles = 2
  /\ stats.processedFiles = 1
  /\ stats.errors = 1
  /\ stats.totalElements = 2

\* the sum of the per-name counts
RECURSIVE SumCounts(_, _)
SumCounts(counts, names) ==
  IF names = {} THEN 0
  ELSE LET name == CHOOSE n \in names : TRUE
       IN counts[name] + SumCounts(counts, names \ {name})

\* C24: between transform calls, also after files that failed part-way,
\* totalElements is the sum of all byElementType counts.
C24_TotalIsSumByType ==
  pc = "idle" =>
    stats.totalElements = SumCounts(stats.byElementType, DOMAIN stats.byElementType)

\* C25: between transform calls processedFiles + errors <= totalFiles: a file
\* is counted once in totalFiles and at most once in one of processedFiles
\* and errors.
C25_ProcessedPlusErrorsWithinTotal ==
  pc = "idle" => stats.processedFiles + stats.errors <= stats.totalFiles

\* C26 as stated: when onTransform is invoked, elementsTagged is the number of
\* elements tagged in the file and elementNames holds each tagged name once,
\* without duplicates.
C26_ElementNamesDistinct ==
  callback # NoCall =>
    /\ callback.elementsTagged >= 1
    /\ \A i, j \in 1..Len(callback.elementNames) :
         callback.elementNames[i] = callback.elementNames[j] => i = j

\* C26 as amended: every tagged element appends its name to elementNames, and
\* onTransform is given the number of tagged elements and that list: one
\* entry per tagged element in document order, a shared name repeated.
C26_ElementNamesPerElement ==
  /\ [][(pc = "open" /\ visit' = "tagged") =>
          /\ elementCount' = elementCount + 1
          /\ elementNames' = Append(elementNames, ElementName(node)[1])]_vars
  /\ [][(pc = "walk" /\ pc' = "idle" /\ callback' # NoCall) =>
          /\ elementCount >= 1
          /\ callback'.elementsTagged = elementCount
          /\ callback'.elementNames = elementNames
          /\ Len(callback'.elementNames) = callback'.elementsTagged]_vars

C26_Witness ==
  /\ callback.outcome = "returns"
  /\ callback.elementsTagged = 2
  /\ callback.elementNames = << <<"div">>, <<"div">> >>

\* the attribute strings of the tagged elements of the file, in walk order
TaggedAttributes ==
  LET tagged == { i \in 1..Len(arg.elements) : arg.elements[i].tagged }
  IN IF tagged = {} THEN <<>>
     ELSE IF Cardinality(tagged) = 1
       THEN << arg.elements[CHOOSE i \in tagged : TRUE].attributes >>
     ELSE << arg.elements[1].attributes, arg.elements[2].attributes >>

\* out is code with the texts inserted, each once, and nothing else changed
OnlyInserted(out, code, texts) ==
  IF Len(texts) = 1
    THEN \E p \in 0..Len(code) :
           out = SubSeq(code, 1, p) \o texts[1] \o SubSeq(code, p + 1, Len(code))
  ELSE \E p \in 0..Len(code) : \E q \in p..Len(code) : \E x \in 1..2 :
         out = SubSeq(code, 1, p) \o texts[x] \o SubSeq(code, p + 1, q)
                 \o texts[3 - x] \o SubSeq(code, q + 1, Len(code))

\* C27: transform returns null when no element was tagged, and otherwise the
\* source with one string inserted per tagged element and nothing else
\* changed.
C27_OnlyInsertsText ==
  ret # <<>> =>
    IF TaggedAttributes = <<>> THEN ret[1].code = None
    ELSE /\ ret[1].code # None
         /\ OnlyInserted(ret[1].code[1], arg.code, TaggedAttributes)

C27_Witness ==
  /\ ret # <<>>
  /\ Len(TaggedAttributes) = 2
  /\ ret[1].code # None
  /\ Len(ret[1].code[1]) = Len(arg.code) + Len(FirstAttributes) + Len(SecondAttributes)
  /\ \E i \in 1..Len(arg.code) : arg.code[i] = " " /\ arg.code[i - 1] = "/"

\* the source span of the opening tag of the call and its offsets in the file
TagSpan == arg.tag.before \o arg.tag.delimiter
TagStart == Len(arg.codeBefore)
TagEnd == TagStart + Len(TagSpan)

\* the text the search looks for is not in the span
DelimiterNotFound ==
  LastIndexOf(TagSpan, IF arg.tag.selfClosing THEN <<"/", ">">> ELSE <<">">>) = 0 - 1

\* C28: when the closing delimiter searched for is not in the opening
\* element's span, the insertion offset is the span end minus the delimiter's
\* length, it lies within the span, and the insertion is carried out.
C28_FallbackOffsetInsideSpan ==
  (ret # <<>> /\ DelimiterNotFound) =>
    /\ ret[1].insertPosition = TagEnd - (IF arg.tag.selfClosing THEN 2 ELSE 1)
    /\ TagStart <= ret[1].insertPosition
    /\ ret[1].insertPosition <= TagEnd
    /\ Len(ret[1].code) = Len(arg.codeBefore) + Len(TagSpan) + Len(arg.codeAfter)
                            + Len(AttributesText)

C28_Witness ==
  /\ ret # <<>>
  /\ DelimiterNotFound
  /\ arg.tag.delimiter = <<"/", " ", ">">>
  /\ arg.codeBefore # <<>>
  /\ ret[1].insertPosition = TagEnd - 2

\* the number of asterisks of a pattern
RECURSIVE WildcardCount(_)
WildcardCount(pattern) ==
  IF pattern = <<>> THEN 0
  ELSE (IF Head(pattern) = "**" THEN 2 ELSE IF Head(pattern) = "*" THEN 1 ELSE 0)
         + WildcardCount(Tail(pattern))

MAX_WILDCARD_COUNT == 10

\* the path matches a pattern of the list that is within the wildcard limit
MatchesUsable(relativePath, patterns) ==
  \E i \in 1..Len(patterns[1]) :
    /\ WildcardCount(patterns[1][i]) <= MAX_WILDCARD_COUNT
    /\ minimatch(relativePath, patterns[1][i])

\* C29: a pattern with more than 10 wildcards matches no path, and the other
\* patterns of its list decide as usual: the file is filtered out exactly when
\* no usable include pattern matches it or a usable exclude pattern does.
C29_OverlongPatternNeverMatches ==
  PastSkipChecks =>
    (FilteredOut <=>
       \/ (config.includePaths # None /\ ~MatchesUsable(file.path, config.includePaths))
       \/ (config.excludePaths # None /\ MatchesUsable(file.path, config.excludePaths)))

\* the nodes that enclose the element whose opening tag is being classified
EnclosingNodes == SubSeq(walkPath, 1, Len(walkPath) - 1)

\* C30: the depth of an element is one more than the number of JSX elements
\* that enclose it, whatever became of them (excluded, depth-rejected,
\* rejected by shouldTag or tagged); an enclosing shorthand fragment adds
\* nothing.
C30_DepthCountsEnclosingElements ==
  [][(pc = "open" /\ elementDepth' # 0) =>
       /\ walkPath[Len(walkPath)] = "JSXElement"
       /\ elementDepth' = 1 + OpenElements(EnclosingNodes)
       /\ elementDepth' = 1 + Cardinality({ i \in 1..Len(EnclosingNodes) :
                                              EnclosingNodes[i] # "JSXFragment" })]_vars

\* the only element tagged so far has depth 2: its parent element was not
\* tagged, and the fragment between them added nothing
C30_Witness ==
  /\ config.shouldTag
  /\ pc = "walk"
  /\ visit = "tagged"
  /\ elementCount = 1
  /\ elementDepth = 2
  /\ walkPath = <<"JSXElement", "JSXFragment", "JSXElement">>

====
